---- MODULE Spec2Model ----
(***************************************************************************)
(* Model of src/main.rs of hello-kubers: one run of `main`, which creates  *)
(* the pod test-kane8n, watches it until it is Running, attaches to it and *)
(* drains its stdout/stderr, follows its logs and deletes it.              *)
(*                                                                         *)
(* The kube client, the attached process, the log stream and the control   *)
(* plane are the environment: every answer they give to a call of `main`   *)
(* is drawn with \E from a small set.  One action is one await point of    *)
(* `main` (a client call, or one iteration of a loop).                     *)
(*                                                                         *)
(* Assumed of the environment: standard output and standard error accept   *)
(* every write (`write_all(..).unwrap()` and `println!` do not panic), and *)
(* a log line that is not UTF-8 is a failed read of the log stream.        *)
(* The info! events are kept in `trace`, apart from the bytes written to   *)
(* the standard streams.                                                   *)
(***************************************************************************)
EXTENDS Naturals, Sequences, FiniteSets

VARIABLES
    pc,         \* the await point `main` is at
    exit,       \* how `main` has ended: "running", "ok", "err" (a `?` returned Err), "panic"
    failure,    \* the call or assertion that ended `main` ("none" when it has not failed)
    ops,        \* the client operations issued so far, in order, each with its outcome
    trace,      \* the info! events emitted so far
    status,     \* <<e>>: the watch event `while let Some(status)` has bound (line 43); <<>>: none
    sawRunning, \* the watch has yielded a Modified event whose phase is Running
    e2e,        \* <<k>>: the watch has yielded exactly the first k events of E2EWatch; <<>>: something else
    watchEnd,   \* how the watch loop ended: "open", "break", "none" (stream ended), "err", "panic"
    mode,       \* the drain function called at line 63/65: NoneV, "combined" or "separate"
    delivered,  \* per output channel: the items its ReaderStream has yielded
    chan,       \* per output channel: "open", "errored" (reader dropped after Err), "eos"
    out,        \* the writes made to std::io::stdout, in order
    errOut,     \* the writes made to std::io::stderr, in order
    statusTaken,\* number of calls of attached.take_status()
    afterErr,   \* chunks the channels have delivered after the first failed read of a channel
    logRaw,     \* the bytes each `logs.try_next()` has read from the log stream
    logEnd,     \* the log stream: "unopened", "open", "eof", "err"
    deleted,    \* the Either pods.delete answered with, <<>> before
    termStatus, \* <<st>>: the terminal status the awaited status slot resolved to; <<>> before
    fuel        \* items the environment may still deliver in this run

vars == << pc, exit, failure, ops, trace, status, sawRunning, e2e, watchEnd, mode, delivered, chan,
           out, errOut, statusTaken, afterErr, logRaw, logEnd, deleted, termStatus, fuel >>

(***************************************************************************)
(* Bounds                                                                  *)
(***************************************************************************)
\* items (watch events, chunks, read errors, log lines) delivered in one run at most
MaxInputs == 4

(***************************************************************************)
(* Data                                                                    *)
(***************************************************************************)
NoneV == "None"

\* the pod name of the descriptor and of every later call
PodName == "test-kane8n"

\* names a delete may answer with
Names == {PodName, "other"}

\* pod phases
Phases == {"Pending", "Running", "Succeeded", "Failed", "Unknown"}

\* a Pod as a watch event carries it: `status` is Option<PodStatus>, `phase` Option<String>
Pods == {[status |-> FALSE, phase |-> NoneV]}
          \cup {[status |-> TRUE, phase |-> p] : p \in {NoneV} \cup Phases}

\* kube WatchEvent: Added(K), Modified(K), Deleted(K), Bookmark(_), Error(_)
\* (a Bookmark or Error carries no pod: its pod field is the pod without status
\* and is never read)
WatchEvents == {[kind |-> k, pod |-> o] : k \in {"Added", "Modified", "Deleted"}, o \in Pods}
                 \cup {[kind |-> k, pod |-> [status |-> FALSE, phase |-> NoneV]] :
                         k \in {"Bookmark", "Error"}}

Channels == {"stdout", "stderr"}

\* the byte chunks a read of a channel may return
ChunkSet(c) == IF c = "stdout" THEN {<<"Hello, kube-rs!", "\n">>, <<"B">>}
                               ELSE {<<"X">>, <<"Y", "\n">>}

\* a failed read of a channel
ReadErr == <<"Err">>

\* terminal status of the attached process, an Option: <<>> is None, <<n>> is Some(exit code n)
Statuses == {<<>>, <<0>>, <<1>>}


(***************************************************************************)
(* main: connect, create                                                   *)
(***************************************************************************)
\* main returns Err through `?`, or panics
Fail(kind, what) ==
    /\ exit' = kind
    /\ failure' = what
    /\ pc' = "exit"

\* a client operation and whether it answered Ok
Op(name, ok) == [op |-> name, ok |-> ok]

\* line 18: Client::try_default().await?
ClientTryDefault ==
    /\ pc = "connect"
    /\ \E ok \in BOOLEAN :
         IF ok THEN /\ pc' = "create"
                    /\ trace' = Append(trace, <<"Creating">>)
                    /\ UNCHANGED << exit, failure >>
               ELSE /\ Fail("err", "connect")
                    /\ UNCHANGED trace
    /\ UNCHANGED << ops, status, sawRunning, e2e, watchEnd, mode, delivered, chan, out, errOut,
                    statusTaken, afterErr, logRaw, logEnd, deleted, termStatus, fuel >>

\* line 36: pods.create(..).await?
PodsCreate ==
    /\ pc = "create"
    /\ \E ok \in BOOLEAN :
         /\ ops' = Append(ops, Op("create", ok))
         /\ IF ok THEN /\ pc' = "watch"
                       /\ UNCHANGED << exit, failure >>
                  ELSE Fail("err", "create")
    /\ UNCHANGED << trace, status, sawRunning, e2e, watchEnd, mode, delivered, chan, out, errOut,
                    statusTaken, afterErr, logRaw, logEnd, deleted, termStatus, fuel >>

(***************************************************************************)
(* main: the watch loop                                                    *)
(***************************************************************************)
\* PodsWatch that opens the watch again when opening it fails
PodsWatch_Retry ==
    /\ pc = "watch"
    /\ \E ok \in BOOLEAN :
         /\ ops' = Append(ops, Op("watch", ok))
         /\ pc' = IF ok THEN "watching" ELSE "watch"
    /\ UNCHANGED << exit, failure, trace, status, sawRunning, e2e, watchEnd, mode,
                    delivered, chan, out, errOut, statusTaken, afterErr, logRaw, logEnd, deleted,
                    termStatus, fuel >>

\* lines 39-42: pods.watch(&wp, "0").await?.boxed()
PodsWatch ==
    /\ pc = "watch"
    /\ \E ok \in BOOLEAN :
         /\ ops' = Append(ops, Op("watch", ok))
         /\ IF ok THEN /\ pc' = "watching"
                       /\ UNCHANGED << exit, failure >>
                  ELSE Fail("err", "watch")
    /\ UNCHANGED << trace, status, sawRunning, e2e, watchEnd, mode, delivered, chan, out, errOut,
                    statusTaken, afterErr, logRaw, logEnd, deleted, termStatus, fuel >>

\* PhaseIsRunning taking every phase but Pending for Running
PhaseIsRunning_NotPending(o) == o.phase \notin {NoneV, "Pending"}

\* line 50: s.phase.clone().unwrap_or_default() == "Running"
PhaseIsRunning(o) == (IF o.phase = NoneV THEN "" ELSE o.phase) = "Running"

\* MatchStatus without the `expect` of line 49: a pod without status has no phase
MatchStatus_NoExpect(e) ==
    IF e.kind = "Modified" /\ e.pod.status /\ PhaseIsRunning(e.pod)
      THEN "break" ELSE "continue"

\* MatchStatus looking at the phase of the pod of an Added or Deleted event too
MatchStatus_AnyKind(e) ==
    IF e.kind \in {"Added", "Modified", "Deleted"}
      THEN IF ~e.pod.status THEN (IF e.kind = "Modified" THEN "panic" ELSE "continue")
           ELSE IF PhaseIsRunning(e.pod) THEN "break" ELSE "continue"
      ELSE "continue"

\* MatchStatus without the `break` of line 52
MatchStatus_NoBreak(e) ==
    IF e.kind = "Modified" /\ ~e.pod.status THEN "panic" ELSE "continue"

\* lines 44-56: what the match arm does with one event: "panic", "break" or "continue"
MatchStatus(e) ==
    IF e.kind = "Modified"
      THEN IF ~e.pod.status THEN "panic"
           ELSE IF PhaseIsRunning(e.pod) THEN "break" ELSE "continue"
      ELSE "continue"

\* the info! of the match arm
MatchTrace(e) ==
    IF e.kind = "Added" THEN << <<"Added">> >>
    ELSE IF MatchStatus(e) = "break" THEN << <<"Ready">> >> ELSE <<>>

\* Observers of the watch, kept for the properties (sawRunning, e2e): they record
\* what the stream has yielded and take no part in what main does.
\* a Modified event of a pod that has a status whose phase is Running
IsModifiedRunning(e) == e.kind = "Modified" /\ e.pod = [status |-> TRUE, phase |-> "Running"]

\* the watch events of the end-to-end scenario
E2EWatch == << [kind |-> "Added",    pod |-> [status |-> TRUE, phase |-> "Pending"]],
               [kind |-> "Modified", pod |-> [status |-> TRUE, phase |-> "Pending"]],
               [kind |-> "Modified", pod |-> [status |-> TRUE, phase |-> "Running"]] >>

\* e2e after the watch has yielded e
E2ENext(m, e) == IF m # <<>> /\ m[1] < Len(E2EWatch) /\ E2EWatch[m[1] + 1] = e
                   THEN << m[1] + 1 >> ELSE <<>>

\* lines 43-57: one `stream.try_next().await?` and the loop body
StreamTryNext ==
    /\ pc = "watching"
    /\ \/ \E e \in WatchEvents :
            /\ fuel > 0
            /\ fuel' = fuel - 1
            /\ status' = <<e>>
            /\ sawRunning' = (sawRunning \/ IsModifiedRunning(e))
            /\ e2e' = E2ENext(e2e, e)
            /\ trace' = trace \o MatchTrace(e)
            /\ CASE MatchStatus(e) = "panic" ->
                      /\ Fail("panic", "expect_status")
                      /\ watchEnd' = "panic"
                 [] MatchStatus(e) = "break" ->
                      /\ pc' = "attach"
                      /\ watchEnd' = "break"
                      /\ UNCHANGED << exit, failure >>
                 [] OTHER ->
                      UNCHANGED << pc, exit, failure, watchEnd >>
       \/ \* Ok(None): the watch stream has ended
          /\ pc' = "attach"
          /\ watchEnd' = "none"
          /\ status' = <<>>
          /\ UNCHANGED << exit, failure, sawRunning, e2e, trace, fuel >>
       \/ \* Err(e)?
          /\ Fail("err", "watch_next")
          /\ watchEnd' = "err"
          /\ status' = <<>>
          /\ UNCHANGED << sawRunning, e2e, trace, fuel >>
    /\ UNCHANGED << ops, mode, delivered, chan, out, errOut,
                    statusTaken, afterErr, logRaw, logEnd, deleted, termStatus >>

(***************************************************************************)
(* main: attach, and the two drain functions                               *)
(***************************************************************************)
\* the drain functions of the repository; main calls combined_output (line 65),
\* the call of separate_outputs (line 63) is the commented-out variant
Modes == {"combined", "separate"}

\* PodsAttach that goes on to fetch the logs when attach fails
PodsAttach_BestEffort ==
    /\ pc = "attach"
    /\ \E ok \in BOOLEAN :
         /\ ops' = Append(ops, Op("attach", ok))
         /\ IF ok THEN /\ pc' = "drain"
                       /\ \E m \in Modes : mode' = m
                  ELSE /\ pc' = "log_stream"
                       /\ UNCHANGED mode
    /\ UNCHANGED << exit, failure, trace, status, sawRunning, e2e, watchEnd, delivered,
                    chan, out, errOut, statusTaken, afterErr, logRaw, logEnd, deleted, termStatus,
                    fuel >>

\* lines 59-65: pods.attach(..).await? and the call of the drain function
PodsAttach ==
    /\ pc = "attach"
    /\ \E ok \in BOOLEAN :
         /\ ops' = Append(ops, Op("attach", ok))
         /\ IF ok THEN /\ pc' = "drain"
                       /\ \E m \in Modes : mode' = m
                       /\ UNCHANGED << exit, failure >>
                  ELSE /\ Fail("err", "attach")
                       /\ UNCHANGED mode
    /\ UNCHANGED << trace, status, sawRunning, e2e, watchEnd, delivered, chan, out, errOut,
                    statusTaken, afterErr, logRaw, logEnd, deleted, termStatus, fuel >>

\* one write_all on a locked standard stream
WriteAll(bytes) == [by |-> "write_all", bytes |-> bytes]

\* CombinedSink forwarding the chunks of stdout only
CombinedSink_DropStderr(c, item) ==
    IF item # ReadErr /\ c = "stdout"
      THEN /\ out' = Append(out, WriteAll(item))
           /\ UNCHANGED errOut
      ELSE UNCHANGED << out, errOut >>

\* CombinedSink writing a chunk one byte at a time
CombinedSink_PerByte(c, item) ==
    IF item # ReadErr
      THEN /\ out' = out \o [i \in 1..Len(item) |-> WriteAll(<< item[i] >>)]
           /\ UNCHANGED errOut
      ELSE UNCHANGED << out, errOut >>

\* lines 125-128: the for_each closure of combined_output
CombinedSink(c, item) ==
    IF item # ReadErr
      THEN /\ out' = Append(out, WriteAll(item))
           /\ UNCHANGED errOut
      ELSE UNCHANGED << out, errOut >>

\* SeparateSink with both closures writing to stdout
SeparateSink_AllStdout(c, item) ==
    IF item # ReadErr
      THEN /\ out' = Append(out, WriteAll(item))
           /\ UNCHANGED errOut
      ELSE UNCHANGED << out, errOut >>

\* lines 101-104 and 108-111: the for_each closures of separate_outputs
SeparateSink(c, item) ==
    IF item # ReadErr
      THEN IF c = "stdout"
             THEN /\ out' = Append(out, WriteAll(item))
                  /\ UNCHANGED errOut
             ELSE /\ errOut' = Append(errOut, WriteAll(item))
                  /\ UNCHANGED out
      ELSE UNCHANGED << out, errOut >>

\* None of a stream: its end
EndOfStream == <<"None">>

\* observer: a read of some channel has failed
HasReadErr == \E c \in Channels : \E i \in 1..Len(delivered[c]) : delivered[c][i] = ReadErr

\* ReaderStreamItems of a reader that stays pending for ever after a failed read
ReaderStreamItems_Stuck(c) ==
    IF chan[c] = "errored" THEN {}
    ELSE {EndOfStream} \cup (IF fuel > 0 THEN ChunkSet(c) \cup {ReadErr} ELSE {})

\* tokio_util ReaderStream::poll_next on channel c: what it may yield now.
\* Some(Ok(chunk)) or Some(Err(e)) while the reader is there, None at the end of
\* the channel or once the reader is dropped
ReaderStreamItems(c) ==
    IF chan[c] = "errored" THEN {EndOfStream}
    ELSE {EndOfStream} \cup (IF fuel > 0 THEN ChunkSet(c) \cup {ReadErr} ELSE {})

\* ReaderStream::poll_next yielding item: an Err drops the reader, and select /
\* for_each do not poll a stream again that has yielded None
ReaderStreamNext(c, item) ==
    /\ chan[c] # "eos"
    /\ IF item = EndOfStream
         THEN /\ chan' = [chan EXCEPT ![c] = "eos"]
              /\ UNCHANGED << delivered, fuel, afterErr >>
         ELSE /\ fuel' = fuel - 1
              /\ delivered' = [delivered EXCEPT ![c] = Append(@, item)]
              /\ afterErr' = IF item # ReadErr /\ HasReadErr THEN afterErr + 1 ELSE afterErr
              /\ chan' = [chan EXCEPT ![c] = IF item = ReadErr THEN "errored" ELSE @]

\* lines 122-130: stream::select(stdout, stderr).for_each(..) takes one item
CombinedOutputNext(c) ==
    /\ pc = "drain"
    /\ mode = "combined"
    /\ \E item \in ReaderStreamItems(c) :
         /\ ReaderStreamNext(c, item)
         /\ IF item = EndOfStream THEN UNCHANGED << out, errOut >>
                                  ELSE CombinedSink(c, item)
    /\ UNCHANGED << pc, exit, failure, ops, trace, status, sawRunning, e2e, watchEnd, mode,
                    statusTaken, logRaw, logEnd, deleted, termStatus >>

\* lines 99-114: one of the two for_each futures of join! takes one item
SeparateOutputsNext(c) ==
    /\ pc = "drain"
    /\ mode = "separate"
    /\ \E item \in ReaderStreamItems(c) :
         /\ ReaderStreamNext(c, item)
         /\ IF item = EndOfStream THEN UNCHANGED << out, errOut >>
                                  ELSE SeparateSink(c, item)
    /\ UNCHANGED << pc, exit, failure, ops, trace, status, sawRunning, e2e, watchEnd, mode,
                    statusTaken, logRaw, logEnd, deleted, termStatus >>

\* DrainDone of a merge that also ends at the first failed read (as try_for_each would)
DrainDone_OrErr == (\A c \in Channels : chan[c] = "eos") \/ (\E c \in Channels : chan[c] = "errored")

\* DrainDone of a merge that ends with the first channel that ends
DrainDone_First == \E c \in Channels : chan[c] = "eos"

\* `outputs.await` (line 130) and `join!` (line 114) complete when the select
\* stream, resp. both for_each futures, are finished
DrainDone == \A c \in Channels : chan[c] = "eos"

\* StatusTrace that never reports the status
StatusTrace_Silent(st) == <<>>

\* lines 131-133 and 115-117: if let Some(status) = .. { info!("{:?}", status) }
StatusTrace(st) == IF st # <<>> THEN << <<"status", st[1]>> >> ELSE <<>>

\* lines 131-133 and 115-117: attached.take_status().unwrap().await
\* the slot is taken once in either function: take_status() is Some and unwrap succeeds
TakeStatus ==
    /\ pc = "drain"
    /\ DrainDone
    /\ statusTaken' = statusTaken + 1
    /\ \E st \in Statuses :
         /\ termStatus' = <<st>>
         /\ trace' = trace \o StatusTrace(st)
    /\ pc' = "log_stream"
    /\ UNCHANGED << exit, failure, ops, status, sawRunning, e2e, watchEnd, mode, delivered, chan,
                    out, errOut, afterErr, logRaw, logEnd, deleted, fuel >>

(***************************************************************************)
(* main: the log follower                                                  *)
(***************************************************************************)
\* lines 67-81: pods.log_stream(.., follow: true ..).await?.lines()
PodsLogStream ==
    /\ pc = "log_stream"
    /\ trace' = Append(trace, <<"Fetching">>)
    /\ \E ok \in BOOLEAN :
         /\ ops' = Append(ops, Op("log_stream", ok))
         /\ IF ok THEN /\ pc' = "logging"
                       /\ logEnd' = "open"
                       /\ UNCHANGED << exit, failure >>
                  ELSE /\ Fail("err", "log_stream")
                       /\ UNCHANGED logEnd
    /\ UNCHANGED << status, sawRunning, e2e, watchEnd, mode, delivered, chan, out, errOut,
                    statusTaken, afterErr, logRaw, deleted, termStatus, fuel >>

\* what one read_line can read: bytes up to and including the next "\n", or,
\* when the stream ends first, the bytes before its end (none: <<>>)
RawReads == { <<>>, <<"a", "\n">>, <<"a", "\r", "\n">>, <<"\n">>, <<"a">>, <<"a", "\r">> }

Last(s) == s[Len(s)]
Front(s) == SubSeq(s, 1, Len(s) - 1)

\* LinesNext ending the stream at an empty line
LinesNext_EmptyEnds(raw) ==
    IF raw = <<>> \/ raw = <<"\n">> THEN <<>>
    ELSE IF Last(raw) = "\n"
      THEN LET l == Front(raw)
           IN  << IF l # <<>> /\ Last(l) = "\r" THEN Front(l) ELSE l >>
      ELSE << raw >>

\* futures Lines::poll_next: None on an empty read, else the line without its
\* "\n" and without a "\r" before that "\n"; an Option as in Statuses
LinesNext(raw) ==
    IF raw = <<>> THEN <<>>
    ELSE IF Last(raw) = "\n"
      THEN LET l == Front(raw)
           IN  << IF l # <<>> /\ Last(l) = "\r" THEN Front(l) ELSE l >>
      ELSE << raw >>

\* line 84: println!("{}", line)
Println(line) == [by |-> "println", bytes |-> Append(line, "\n")]

\* lines 83-85: one `logs.try_next().await?` and the loop body
LogsTryNext ==
    /\ pc = "logging"
    /\ \/ \E raw \in RawReads :
            /\ logEnd = "eof" => raw = <<>>
            /\ raw # <<>> => fuel > 0
            /\ fuel' = IF raw # <<>> THEN fuel - 1 ELSE fuel
            /\ logRaw' = Append(logRaw, raw)
            /\ logEnd' = IF raw = <<>> \/ Last(raw) # "\n" THEN "eof" ELSE logEnd
            /\ IF LinesNext(raw) = <<>>
                 THEN /\ pc' = "delete"
                      /\ UNCHANGED out
                 ELSE /\ out' = Append(out, Println(LinesNext(raw)[1]))
                      /\ UNCHANGED pc
            /\ UNCHANGED << exit, failure >>
       \/ \* Err(e)?
          /\ logEnd = "open"
          /\ Fail("err", "log_next")
          /\ logEnd' = "err"
          /\ UNCHANGED << logRaw, out, fuel >>
    /\ UNCHANGED << ops, trace, status, sawRunning, e2e, watchEnd, mode, delivered, chan, errOut,
                    statusTaken, afterErr, deleted, termStatus >>

(***************************************************************************)
(* main: delete                                                            *)
(***************************************************************************)
\* what pods.delete answers: Either::Left(pod of some name), Either::Right(status)
DeleteAnswers == {<<"Left", n>> : n \in Names} \cup {<<"Right">>}

\* AssertName asking for a Left of the requested name
AssertName_LeftOnly(ans) == ans[1] = "Left" /\ ans[2] = PodName

\* AssertName with the assertion left out
AssertName_Skip(ans) == TRUE

\* line 91: assert_eq!(pdel.name_any(), "test-kane8n")
AssertName(ans) == ans[1] = "Left" => ans[2] = PodName

\* lines 87-94: pods.delete(..).await?.map_left(..) and Ok(())
PodsDelete ==
    /\ pc = "delete"
    /\ \/ \E ans \in DeleteAnswers :
            /\ ops' = Append(ops, Op("delete", TRUE))
            /\ deleted' = ans
            /\ IF AssertName(ans)
                 THEN /\ exit' = "ok"
                      /\ pc' = "exit"
                      /\ UNCHANGED failure
                 ELSE Fail("panic", "assert_eq_name")
       \/ /\ ops' = Append(ops, Op("delete", FALSE))
          /\ Fail("err", "delete")
          /\ UNCHANGED deleted
    /\ UNCHANGED << trace, status, sawRunning, e2e, watchEnd, mode, delivered, chan, out, errOut,
                    statusTaken, afterErr, logRaw, logEnd, termStatus, fuel >>

(***************************************************************************)
(* Specification                                                           *)
(***************************************************************************)
Init ==
    /\ pc = "connect"
    /\ exit = "running"
    /\ failure = "none"
    /\ ops = <<>>
    /\ trace = <<>>
    /\ status = <<>>
    /\ sawRunning = FALSE
    /\ e2e = <<0>>
    /\ watchEnd = "open"
    /\ mode = NoneV
    /\ delivered = [c \in Channels |-> <<>>]
    /\ chan = [c \in Channels |-> "open"]
    /\ out = <<>>
    /\ errOut = <<>>
    /\ statusTaken = 0
    /\ afterErr = 0
    /\ logRaw = <<>>
    /\ logEnd = "unopened"
    /\ deleted = <<>>
    /\ termStatus = <<>>
    /\ fuel = MaxInputs

Next ==
    \/ ClientTryDefault
    \/ PodsCreate
    \/ PodsWatch
    \/ StreamTryNext
    \/ PodsAttach
    \/ \E c \in Channels : CombinedOutputNext(c)
    \/ \E c \in Channels : SeparateOutputsNext(c)
    \/ TakeStatus
    \/ PodsLogStream
    \/ LogsTryNext
    \/ PodsDelete

Spec == Init /\ [][Next]_vars

\* the executor polls the drain future until it is ready: a channel that can
\* yield an item is polled, and the await of the termination status completes
FairSpec ==
    /\ Spec
    /\ \A c \in Channels : WF_vars(CombinedOutputNext(c)) /\ WF_vars(SeparateOutputsNext(c))
    /\ WF_vars(TakeStatus)

(***************************************************************************)
(* Observations used by the properties                                     *)
(***************************************************************************)
\* the order in which main issues its client operations
Workflow == <<"create", "watch", "attach", "log_stream", "delete">>

OpNames == [i \in 1..Len(ops) |-> ops[i].op]

Issued(name) == \E i \in 1..Len(ops) : ops[i].op = name

IsPrefix(s, t) == Len(s) <= Len(t) /\ \A i \in 1..Len(s) : s[i] = t[i]

BytesOf(ws) == [i \in 1..Len(ws) |-> ws[i].bytes]

\* the chunks the drain function wrote to stdout
MuxWrites == LET IsMux(w) == w.by = "write_all" IN BytesOf(SelectSeq(out, IsMux))

\* the lines the log follower printed
Printed == LET IsLine(w) == w.by = "println" IN BytesOf(SelectSeq(out, IsLine))

\* the chunks channel c has delivered without error
ChunksOf(c) == LET IsChunk(x) == x # ReadErr IN SelectSeq(delivered[c], IsChunk)

\* the members of a sequence of chunks that are chunks of channel c
FromChannel(c, bs) == LET IsOfC(b) == b \in ChunkSet(c) IN SelectSeq(bs, IsOfC)

\* the log loop has ended without error
LogDone == pc = "delete" \/ Issued("delete")

\* every read of the log stream was a complete line or the end of the stream
CompleteLines == \A i \in 1..Len(logRaw) : logRaw[i] = <<>> \/ Last(logRaw[i]) = "\n"

\* number of line terminators the log stream has delivered
NumNewlines == Cardinality({<<i, j>> \in (1..Len(logRaw)) \X (1..3) :
                              j <= Len(logRaw[i]) /\ logRaw[i][j] = "\n"})

\* the statuses main has reported
StatusReports == LET IsStatus(t) == t[1] = "status" IN SelectSeq(trace, IsStatus)

(***************************************************************************)
(* Properties                                                              *)
(***************************************************************************)
\* C1: when the watch stream ends without error and has yielded no Modified event
\* of phase Running, main ends with a failure and never issues attach, log_stream
\* or delete.
C1_TimedOutAborts ==
    (watchEnd = "none" /\ ~sawRunning) =>
        /\ exit = "err"
        /\ pc = "exit"
        /\ ~Issued("attach") /\ ~Issued("log_stream") /\ ~Issued("delete")

\* C2: once the watch has yielded a Modified event of phase Running, that event is
\* the last one the loop has taken, the loop has ended by `break`, and attach is
\* the next operation (or already issued).
C2_RunningEndsWait ==
    sawRunning =>
        /\ status # <<>> /\ IsModifiedRunning(status[1])
        /\ watchEnd = "break"
        /\ pc # "watching"
        /\ pc = "attach" \/ Issued("attach")

C2_Witness ==
    /\ sawRunning
    /\ Issued("attach")
    /\ fuel < MaxInputs - 1

\* C3: in combined_output the writes to stdout are, for each channel, exactly the
\* chunks that channel has delivered without error, in the order of delivery, and
\* nothing else is written.
C3_MergedSink ==
    mode = "combined" =>
        /\ \A c \in Channels : FromChannel(c, MuxWrites) = ChunksOf(c)
        /\ Len(MuxWrites) = Len(ChunksOf("stdout")) + Len(ChunksOf("stderr"))
        /\ errOut = <<>>

C3_Witness ==
    /\ mode = "combined"
    /\ statusTaken = 1
    /\ Len(ChunksOf("stdout")) = 2
    /\ Len(ChunksOf("stderr")) = 2
    /\ MuxWrites[1] \in ChunkSet("stderr")
    /\ MuxWrites[2] \in ChunkSet("stdout")
    /\ MuxWrites[3] \in ChunkSet("stderr")

\* C4: the status slot is taken at most once, only when both channels have reported
\* end of stream, and exactly once when the drain function has returned, in
\* combined_output and in separate_outputs.
C4_StatusOnce ==
    /\ statusTaken <= 1
    /\ statusTaken = 1 <=> termStatus # <<>>
    /\ statusTaken >= 1 => \A c \in Channels : chan[c] = "eos"
    /\ (pc \in {"log_stream", "logging", "delete"} \/ Issued("log_stream")) => statusTaken = 1

C4_Witness ==
    /\ mode = "separate"
    /\ statusTaken = 1
    /\ ChunksOf("stdout") # <<>>
    /\ ChunksOf("stderr") # <<>>

\* C5: when delete answers Left(pod), main panics on assert_eq! (DeletionMismatch)
\* if the pod's name differs from the requested name, and returns Ok if it is equal.
C5_DeleteImmediate ==
    (deleted # <<>> /\ deleted[1] = "Left") =>
        IF deleted[2] = PodName
          THEN exit = "ok" /\ failure = "none"
          ELSE exit = "panic" /\ failure = "assert_eq_name"

C5_Witness ==
    /\ deleted = <<"Left", "other">>
    /\ exit = "panic"

\* C6: when the log stream has delivered N complete lines and then ended, the loop
\* has printed N lines, the i-th being the i-th line delivered, and main goes on
\* to delete.
C6_FiniteLog ==
    CompleteLines =>
        /\ LogDone =>
             /\ Len(Printed) = NumNewlines
             /\ \A i \in 1..Len(Printed) :
                  LET NotCR(b) == b # "\r" IN Printed[i] = SelectSeq(logRaw[i], NotCR)
        /\ logEnd = "eof" => LogDone

C6_Witness ==
    /\ CompleteLines
    /\ LogDone
    /\ Len(Printed) = 2
    /\ Printed[1] # Printed[2]

\* C7: the log loop is left only in a step in which the log stream is closed or
\* fails, and once the stream is closed the next step of the loop leaves it and
\* prints nothing.
C7_FollowUntilClosed ==
    [][ /\ (pc = "logging" /\ pc' # "logging") => logEnd' \in {"eof", "err"}
        /\ (pc = "logging" /\ logEnd = "eof") => (pc' = "delete" /\ out' = out)
      ]_vars

C7_Witness ==
    /\ LogDone
    /\ Len(logRaw) >= 2
    /\ logRaw[Len(logRaw) - 1] \in {<<"a">>, <<"a", "\r">>}

\* C8: after the watch has yielded Added(Pending), Modified(Pending),
\* Modified(Running), attach is next; and when the process then delivers the one
\* chunk "Hello, kube-rs!\n" on stdout, nothing on stderr, and status 0, stdout has
\* received exactly that chunk and status 0 has been reported exactly once.
C8_EndToEnd ==
    e2e = <<3>> =>
        /\ pc = "attach" \/ Issued("attach")
        /\ ( /\ mode = "combined"
             /\ delivered = [c \in Channels |->
                               IF c = "stdout" THEN << <<"Hello, kube-rs!", "\n">> >> ELSE <<>>]
             /\ termStatus = << <<0>> >> )
           => /\ MuxWrites = << <<"Hello, kube-rs!", "\n">> >>
              /\ StatusReports = << <<"status", 0>> >>
              /\ statusTaken = 1

C8_Witness ==
    /\ e2e = <<3>>
    /\ mode = "combined"
    /\ delivered["stdout"] = << <<"Hello, kube-rs!", "\n">> >>
    /\ delivered["stderr"] = <<>>
    /\ termStatus = << <<0>> >>

\* C9: a client operation that failed is the last operation issued and main has
\* returned its error; a failed read of the watch or of the log stream likewise
\* ends main with no later operation issued.
C9_FailFast ==
    /\ \A i \in 1..Len(ops) :
         ~ops[i].ok => /\ i = Len(ops)
                       /\ pc = "exit" /\ exit = "err" /\ failure = ops[i].op
    /\ watchEnd = "err" => /\ pc = "exit" /\ exit = "err" /\ failure = "watch_next"
                           /\ OpNames = SubSeq(Workflow, 1, 2)
    /\ logEnd = "err" => /\ pc = "exit" /\ exit = "err" /\ failure = "log_next"
                         /\ OpNames = SubSeq(Workflow, 1, 4)

C9_Witness ==
    /\ Len(ops) = 3
    /\ ops[3] = Op("attach", FALSE)
    /\ pc = "exit"

\* C10: the operations issued are a prefix of create, watch, attach, log_stream,
\* delete; attach is issued only after the watch loop has ended, log_stream only
\* after the status has been awaited, delete only after the log stream has ended.
C10_Sequential ==
    /\ IsPrefix(OpNames, Workflow)
    /\ Issued("watch") => ops[1].ok
    /\ Issued("attach") => watchEnd \in {"break", "none"}
    /\ Issued("log_stream") => (statusTaken = 1 /\ termStatus # <<>> /\ DrainDone)
    /\ Issued("delete") => logEnd = "eof"

C10_Witness ==
    /\ exit = "ok"
    /\ OpNames = Workflow

\* the loop goes on after the event it has taken: main has not ended and the
\* next stream.try_next() is what it does next
StillWaiting == pc = "watching" /\ exit = "running" /\ failure = "none" /\ watchEnd = "open"

\* the wait has failed on the `expect` of line 49 (MissingStatus) and attach is not issued
FailedMissingStatus ==
    /\ pc = "exit" /\ exit = "panic" /\ failure = "expect_status" /\ watchEnd = "panic"
    /\ ~Issued("attach")

\* C11 as stated: a Modified event whose phase is absent, the pod having no status
\* or a status without phase, fails the wait with MissingStatus and attach is not
\* issued.
C11_AbsentPhaseFails ==
    (status # <<>> /\ status[1].kind = "Modified" /\ status[1].pod.phase = NoneV)
        => FailedMissingStatus

\* C11 amended: a Modified event whose pod has no status fails the wait with
\* MissingStatus and attach is not issued; a Modified event whose pod has a status
\* without phase is read as not Running and the wait goes on.
C11_AbsentStatusFails ==
    (status # <<>> /\ status[1].kind = "Modified" /\ status[1].pod.phase = NoneV)
        => IF status[1].pod.status THEN StillWaiting ELSE FailedMissingStatus

C11_Witness ==
    /\ status = << [kind |-> "Modified", pod |-> [status |-> FALSE, phase |-> NoneV]] >>
    /\ exit = "panic"
    /\ fuel < MaxInputs - 1

\* C12: after an Added, Deleted, Bookmark or Error event, whatever its pod, the
\* wait goes on with the next event; when the wait has ended by `break`, the
\* event taken last is a Modified event.
C12_OnlyModifiedEnds ==
    /\ (status # <<>> /\ status[1].kind # "Modified") => StillWaiting
    /\ watchEnd = "break" => (status # <<>> /\ status[1].kind = "Modified")

C12_Witness ==
    /\ status = << [kind |-> "Added", pod |-> [status |-> TRUE, phase |-> "Running"]] >>
    /\ pc = "watching"

\* C18: after a Modified event whose phase is present and is not Running the wait
\* goes on with the next event: it has neither ended nor failed.
C18_OtherPhaseWaits ==
    (/\ status # <<>>
     /\ status[1].kind = "Modified"
     /\ status[1].pod.status
     /\ status[1].pod.phase \in Phases \ {"Running"}) => StillWaiting

C18_Witness ==
    /\ status = << [kind |-> "Modified", pod |-> [status |-> TRUE, phase |-> "Failed"]] >>
    /\ pc = "watching"
    /\ ~sawRunning

\* C17: when delete answers Right (the deletion is pending), main returns Ok with no
\* assertion failed, and delete, issued once, is the last operation of the run.
C17_PendingDelete ==
    deleted = <<"Right">> =>
        /\ pc = "exit" /\ exit = "ok" /\ failure = "none"
        /\ OpNames = Workflow
        /\ ops[Len(ops)] = Op("delete", TRUE)

C17_Witness ==
    /\ deleted = <<"Right">>
    /\ exit = "ok"

\* the chunks the drain function wrote to stderr
ErrWrites == BytesOf(errOut)

\* every chunk delivered has been written once to the sink of the mode, in the
\* order of its channel
AllForwarded ==
    IF mode = "combined"
      THEN /\ \A c \in Channels : FromChannel(c, MuxWrites) = ChunksOf(c)
           /\ Len(MuxWrites) = Len(ChunksOf("stdout")) + Len(ChunksOf("stderr"))
           /\ ErrWrites = <<>>
      ELSE /\ MuxWrites = ChunksOf("stdout")
           /\ ErrWrites = ChunksOf("stderr")

\* C13: once a read of a channel has failed, nothing has been written for the
\* failed read, main has not failed in the drain, every chunk delivered (before or
\* after the failure) has been forwarded, and the drain has ended only with both
\* channels at end of stream.
C13_ReadErrorDropped ==
    HasReadErr =>
        /\ \A i \in 1..Len(MuxWrites) : MuxWrites[i] # ReadErr
        /\ \A i \in 1..Len(ErrWrites) : ErrWrites[i] # ReadErr
        /\ AllForwarded
        /\ afterErr <= Len(MuxWrites) + Len(ErrWrites)
        /\ pc = "drain" => exit = "running"
        /\ failure \notin {"connect", "create", "watch", "watch_next", "expect_status", "attach"}
        /\ statusTaken >= 1 => \A c \in Channels : chan[c] = "eos"

C13_Witness ==
    /\ mode = "combined"
    /\ delivered["stderr"] = << ReadErr >>
    /\ afterErr = 2
    /\ Len(MuxWrites) = 2
    /\ statusTaken = 1

\* C15: in separate mode the writes to stdout are the chunks of stdout and the
\* writes to stderr are the chunks of stderr, each in the order of delivery, and
\* while the drain runs a channel that has not ended can be consumed whatever the
\* other channel has delivered.
C15_SeparateSinks ==
    mode = "separate" =>
        /\ MuxWrites = ChunksOf("stdout")
        /\ ErrWrites = ChunksOf("stderr")
        /\ \A i \in 1..Len(MuxWrites) : MuxWrites[i] \in ChunkSet("stdout")
        /\ \A i \in 1..Len(ErrWrites) : ErrWrites[i] \in ChunkSet("stderr")
        /\ \A c \in Channels :
             pc = "drain" /\ chan[c] # "eos" => ENABLED SeparateOutputsNext(c)

C15_Witness ==
    /\ mode = "separate"
    /\ pc = "drain"
    /\ delivered["stdout"] = <<>>
    /\ chan["stdout"] = "open"
    /\ ErrWrites = << << "X" >>, << "Y", "\n" >> >>
    /\ MuxWrites = <<>>

\* the chunks a channel can deliver
AllChunks == UNION { ChunkSet(c) : c \in Channels }

RECURSIVE Flatten(_)
\* the bytes of a sequence of chunks, one after the other
Flatten(bs) == IF bs = <<>> THEN <<>> ELSE bs[1] \o Flatten(Tail(bs))

\* C16: in merged mode every write to stdout is one whole chunk as delivered, and
\* there are as many writes, and as many bytes written, as chunks, resp. bytes,
\* delivered.
C16_ChunkContiguous ==
    mode = "combined" =>
        /\ \A i \in 1..Len(MuxWrites) : MuxWrites[i] \in AllChunks
        /\ Len(MuxWrites) = Len(ChunksOf("stdout") \o ChunksOf("stderr"))
        /\ Len(Flatten(MuxWrites)) = Len(Flatten(ChunksOf("stdout") \o ChunksOf("stderr")))
        /\ \A c \in Channels : Flatten(FromChannel(c, MuxWrites)) = Flatten(ChunksOf(c))

C16_Witness ==
    /\ mode = "combined"
    /\ MuxWrites = << << "X" >>, << "Hello, kube-rs!", "\n" >>, << "Y", "\n" >> >>

\* C14: under fair scheduling a drain that has started completes, and the step
\* that ends it is taken with both channels at end of stream and every chunk
\* delivered forwarded.
C14_DrainCompletes ==
    /\ (pc = "drain") ~> (statusTaken = 1)
    /\ [][pc = "drain" /\ pc' # "drain" => DrainDone /\ AllForwarded /\ pc' = "log_stream"]_vars

C14_Witness ==
    /\ statusTaken = 1
    /\ delivered["stdout"] = <<>>
    /\ afterErr = 0
    /\ Len(ChunksOf("stderr")) = 2

====
